---- MODULE Spec2Model ----
(***************************************************************************)
(* State-machine model of the secure-erase worker (SecureDeleteThread) of  *)
(* pyqt-tree-scanner.py and of the handlers that start it, over a small    *)
(* POSIX-like filesystem: directory entries that name inodes, and inodes   *)
(* that hold byte sequences.                                               *)
(*                                                                         *)
(* A byte is modelled by its provenance: "o" a byte of the content the     *)
(* file had before any erase touched it, "z" a zero byte written by        *)
(* zero_fill, "r" a byte drawn from os.urandom, "c" a ciphertext byte.     *)
(*                                                                         *)
(* Spec is the system with a caller that serializes its erase requests;    *)
(* ConcurrentSpec lets requests overlap.                                   *)
(***************************************************************************)
EXTENDS Integers, Sequences, FiniteSets, TLC

\* ---------------------------------------------------------------- bounds
MaxThreads == 2
MaxPasses == 3
MaxSize == 2
MaxScans == 2

\* ------------------------------------------------------ program constants
DodPasses == 3
PassesLow == 1
PassesHigh == 99
SpinBoxValue == 3
SliderValue == 3
MaxRecent == 30

\* ------------------------------------------------------------ filesystem
\* The one directory the application works in, and the names in it:
\* two visible regular files, a hidden regular file and a sub-directory.
Directory == "D"
Names == {"a.txt", ".hidden", "b", "c.txt"}
ListOrder == <<".hidden", "a.txt", "b", "c.txt">>

\* inode numbers of the entries present at start; 0 is "no inode"
InitIno == [name \in Names |->
               CASE name = "a.txt" -> 1 [] name = ".hidden" -> 2
                 [] name = "b" -> 3 [] OTHER -> 4]
InitInodes == {InitIno[name] : name \in Names}
Threads == 1..MaxThreads
Scans == 1..MaxScans
\* the inode a thread's open() allocates when it creates the file
NewIno(t) == Cardinality(InitInodes) + t
Inodes == InitInodes \cup {NewIno(t) : t \in Threads}

KnownMethods == {"zero", "random", "dod", "aes"}
DeletionMethodItems == {"Zero Fill", "Random Fill", "DoD 5220.22-M", "AES Wipe"}

VARIABLES
    dirent,             \* Names -> inode number, 0 when the name is absent
    isdir,              \* Inodes -> BOOLEAN
    content,            \* Inodes -> sequence of bytes
    dir_writable,       \* may entries of the directory be created/removed
    dir_readable,       \* may the directory be listed
    current_directory,  \* ShredSpaceApp.current_directory ("" is None)
    secure_delete_thread, \* ShredSpaceApp.secure_delete_thread (0 is unset)
    started,            \* number of SecureDeleteThread objects created
    th,                 \* Threads -> state of each SecureDeleteThread
    order,              \* the order in which the directory enumerates Names
    recent_scans,       \* ShredSpaceApp.settings['recent_scans']
    settings_file,      \* the recent_scans list stored in settings.json
    file_scanner_thread, \* ShredSpaceApp.file_scanner_thread (0 is unset)
    scans,              \* number of FileScannerThread objects created
    sc,                 \* Scans -> state of each FileScannerThread
    queue,              \* signals posted to the GUI thread, not yet handled
    delivered,          \* Scans -> the signals of a scan handled so far
    progress_bar,       \* ShredSpaceApp.progress_bar value
    displayed,          \* the dataset of the treemap on display
    selected_file,      \* ShredSpaceApp.selected_file ("" is None)
    slot_error,         \* the exception that left the last handler ("" none)
    message_box,        \* title of the last QMessageBox shown ("" none)
    shown               \* the scan whose result is on display (0 is none)

fsvars == <<dirent, isdir, content, dir_writable, dir_readable>>
appvars == <<current_directory, secure_delete_thread, started>>
\* the state of the scanning window
scanvars == <<order, recent_scans, settings_file, file_scanner_thread,
              scans, sc, queue,
              delivered, progress_bar, displayed, selected_file, slot_error,
              message_box, shown>>

vars == <<fsvars, appvars, th, scanvars>>

\* ------------------------------------------------------- pure operators
Repeat(b, n) == [k \in 1..n |-> b]

\* b'\x00' * n
ZeroBytes(n) == Repeat("z", n)

\* os.urandom(n)
Urandom(n) == Repeat("r", n)

\* encryptor.update(data) + encryptor.finalize() under AES in CFB mode:
\* a stream mode, one ciphertext byte per plaintext byte, nothing added
\* by finalize().
Encrypt(data) == [k \in 1..Len(data) |-> "c"]

\* os.path.exists / isfile on a name of the directory
Exists(name) == dirent[name] # 0
IsFile(name) == Exists(name) /\ ~isdir[dirent[name]]

\* os.path.getsize(path) for an existing path
GetSize(name) == Len(content[dirent[name]])

\* Where an unbuffered write on a file object lands.  A file opened in an
\* append mode ("a" in the mode string, O_APPEND) writes at the end of the
\* file whatever the position set by seek(); otherwise at the position.
WriteOffset(append, pos, data) == IF append THEN Len(data) ELSE pos

\* The bytes of a file after writing buf at offset off.
WriteAt(data, off, buf) ==
    LET end == off + Len(buf)
        newlen == IF end > Len(data) THEN end ELSE Len(data)
    IN [k \in 1..newlen |->
            IF k > off /\ k <= end THEN buf[k - off] ELSE data[k]]

\* The mode string of every open() of the worker: "ba+".
OpenModeAppend == TRUE

\* selected_method = currentText().lower().replace(" ", "_")
MethodFromText(text) ==
    CASE text = "Zero Fill" -> "zero_fill"
      [] text = "Random Fill" -> "random_fill"
      [] text = "DoD 5220.22-M" -> "dod_5220.22-m"
      [] text = "AES Wipe" -> "aes_wipe"

\* range(...) of the pass loop of each overwrite method
LoopCountHonoursPasses(method, passes) ==
    IF method = "aes" THEN 1 ELSE passes

LoopCountOneMore(method, passes) ==
    CASE method \in {"zero", "random"} -> passes + 1
      [] method = "dod" -> DodPasses
      [] OTHER -> 1

LoopCount(method, passes) ==
    CASE method \in {"zero", "random"} -> passes
      [] method = "dod" -> DodPasses
      [] OTHER -> 1

\* Whether pass i of random_fill and dod_standard calls os.urandom: the call
\* is in the loop body, so every pass draws its own buffer.
DrawInFirstPassOnly(i) == i = 0

DrawInPass(i) == TRUE

\* validate_passes
validate_passes(passes) == PassesLow <= passes /\ passes <= PassesHigh

\* ------------------------------------------------------------ the worker
\* SecureDeleteThread before __init__: no request yet.
NoThread ==
    [pc |-> "new", file_path |-> "", method |-> "", passes |-> 0,
     f |-> 0, pos |-> 0, i |-> 0, buf |-> <<>>, exc |-> "",
     \* urandom counts the os.urandom calls, draw is the call buf came from
     urandom |-> 0, reads |-> 0, draw |-> 0,
     \* history of the request, for the properties
     wlog |-> <<>>, kind0 |-> "", data0 |-> <<>>, created |-> FALSE,
     overwritten |-> FALSE, unlinked |-> <<>>]

\* An exception leaves run(): the with-block closes the file, the thread ends.
Raise(r, e) == [r EXCEPT !.pc = "raised", !.exc = e, !.f = 0, !.buf = <<>>]

\* How a request ended, in the vocabulary of the error taxonomy: run()
\* returned, or the class of the exception that left it.
Outcome(t) ==
    CASE th[t].pc = "done" -> "Success"
      [] th[t].pc = "raised" /\ th[t].exc = "FileNotFoundError" -> "NotFound"
      [] th[t].pc = "raised" /\ th[t].exc = "PermissionError" -> "PermissionDenied"
      [] th[t].pc = "raised" -> "IoError"
      [] OTHER -> "none"

Terminated(t) == th[t].pc \in {"done", "raised"}

\* SecureDeleteThread(file_path, method, passes) followed by start()
NewThread(file_path, method, passes) ==
    /\ started < MaxThreads
    /\ started' = started + 1
    /\ secure_delete_thread' = started + 1
    /\ th' = [th EXCEPT ![started + 1] =
                 [NoThread EXCEPT !.pc = "run", !.file_path = file_path,
                                  !.method = method, !.passes = passes]]

\* run(): the dispatch on self.method and, for a known method, the open()
\* of the overwrite method (aes_wipe first draws its key and IV).
Run(t) ==
    LET r == th[t]
        p == r.file_path
        r0 == [r EXCEPT !.kind0 = IF IsFile(p) THEN "file"
                                  ELSE IF Exists(p) THEN "dir" ELSE "absent",
                        !.data0 = IF IsFile(p) THEN content[dirent[p]] ELSE <<>>,
                        !.urandom = IF r.method = "aes" THEN 2 ELSE 0]
        n == LoopCount(r.method, r.passes)
        next == IF r.method = "aes" THEN "read"
                ELSE IF n > 0 THEN "getsize" ELSE "remove"
        opened(ino, made) ==
            [r0 EXCEPT !.pc = next, !.f = IF next = "remove" THEN 0 ELSE ino,
                       !.created = made, !.overwritten = (next = "remove")]
    IN
    /\ r.pc = "run"
    /\ IF r.method \notin KnownMethods
         THEN /\ th' = [th EXCEPT ![t] = [r0 EXCEPT !.pc = "remove"]]
              /\ UNCHANGED fsvars
         ELSE IF Exists(p) /\ isdir[dirent[p]]
         THEN /\ th' = [th EXCEPT ![t] = Raise(r0, "IsADirectoryError")]
              /\ UNCHANGED fsvars
         ELSE IF Exists(p)
         THEN /\ th' = [th EXCEPT ![t] = opened(dirent[p], FALSE)]
              /\ UNCHANGED fsvars
         ELSE IF dir_writable
         THEN \* mode "a": the file is created, empty
              /\ dirent' = [dirent EXCEPT ![p] = NewIno(t)]
              /\ content' = [content EXCEPT ![NewIno(t)] = <<>>]
              /\ th' = [th EXCEPT ![t] = opened(NewIno(t), TRUE)]
              /\ UNCHANGED <<isdir, dir_writable, dir_readable>>
         ELSE /\ th' = [th EXCEPT ![t] = Raise(r0, "PermissionError")]
              /\ UNCHANGED fsvars
    /\ UNCHANGED <<appvars, scanvars>>

\* One pass, first half: f.seek(0), os.path.getsize(self.file_path) and the
\* buffer of that many bytes.
PassBuffer(t) ==
    LET r == th[t]
        p == r.file_path
        n == GetSize(p)
    IN
    /\ r.pc = "getsize"
    /\ IF ~Exists(p)
         THEN th' = [th EXCEPT ![t] = Raise(r, "FileNotFoundError")]
         ELSE th' = [th EXCEPT ![t] =
                 [r EXCEPT !.pc = "write", !.pos = 0,
                    !.buf = IF r.method = "zero" THEN ZeroBytes(n)
                            ELSE IF DrawInPass(r.i) THEN Urandom(n)
                            ELSE r.wlog[Len(r.wlog)].buf,
                    !.urandom = IF r.method = "zero" \/ ~DrawInPass(r.i)
                                  THEN @ ELSE @ + 1,
                    !.draw = IF r.method = "zero" THEN 0
                             ELSE IF DrawInPass(r.i) THEN r.urandom + 1
                             ELSE @]]
    /\ UNCHANGED <<fsvars, appvars, scanvars>>

\* aes_wipe: f.seek(0); data = f.read(); the encryption; f.seek(0)
AesRead(t) ==
    LET r == th[t] IN
    /\ r.pc = "read"
    /\ th' = [th EXCEPT ![t] =
                 [r EXCEPT !.pc = "write", !.pos = 0, !.reads = @ + 1,
                           !.buf = Encrypt(content[r.f])]]
    /\ UNCHANGED <<fsvars, appvars, scanvars>>

\* f.write(buffer), and the end of the loop (and of the with-block) after
\* the last pass.
PassWrite(t) ==
    LET r == th[t]
        off == WriteOffset(OpenModeAppend, r.pos, content[r.f])
        last == r.i + 1 >= LoopCount(r.method, r.passes)
    IN
    /\ r.pc = "write"
    /\ content' = [content EXCEPT ![r.f] = WriteAt(@, off, r.buf)]
    /\ th' = [th EXCEPT ![t] =
                 [r EXCEPT !.pc = IF last THEN "remove" ELSE "getsize",
                           !.i = @ + 1, !.pos = off + Len(r.buf),
                           !.buf = <<>>, !.f = IF last THEN 0 ELSE @,
                           !.overwritten = last,
                           !.wlog = Append(@, [off |-> off, buf |-> r.buf,
                                               draw |-> r.draw])]]
    /\ UNCHANGED <<dirent, isdir, dir_writable, dir_readable, appvars, scanvars>>

\* The path run() hands to os.remove: the path of the request.
RemoveFirstListed(r) ==
    LET listed == SelectSeq(order, Exists)
    IN IF listed = <<>> THEN r.file_path ELSE Head(listed)

RemoveTarget(r) == r.file_path

\* os.remove(self.file_path), the last statement of run()
Remove(t) ==
    LET r == th[t]
        p == RemoveTarget(r)
    IN
    /\ r.pc = "remove"
    /\ IF ~Exists(p)
         THEN /\ th' = [th EXCEPT ![t] = Raise(r, "FileNotFoundError")]
              /\ UNCHANGED fsvars
         ELSE IF isdir[dirent[p]]
         THEN /\ th' = [th EXCEPT ![t] = Raise(r, "IsADirectoryError")]
              /\ UNCHANGED fsvars
         ELSE IF ~dir_writable
         THEN /\ th' = [th EXCEPT ![t] = Raise(r, "PermissionError")]
              /\ UNCHANGED fsvars
         ELSE /\ dirent' = [dirent EXCEPT ![p] = 0]
              /\ th' = [th EXCEPT ![t] =
                           [r EXCEPT !.pc = "done",
                                     !.unlinked = content[dirent[p]]]]
              /\ UNCHANGED <<isdir, content, dir_writable, dir_readable>>
    /\ UNCHANGED <<appvars, scanvars>>

\* ----------------------------------------------------------- the scanner
\* os.listdir(self.directory): the names present, in enumeration order (of
\* a directory that can be listed; otherwise the call raises)
ListDir == SelectSeq(order, Exists)

\* filename.startswith('.')
NeverHidden(name) == FALSE

StartsWithDot(name) == name \in {".hidden"}

\* [f for f in ... if not f.startswith('.')]
NotHidden(names) == SelectSeq(names, LAMBDA name : ~StartsWithDot(name))

\* int((index + 1) * increment), increment = 100 / total_files if
\* total_files > 0 else 1.  The float product truncates to the integer
\* quotient for every total_files up to 8 and index below 12.
ProgressRemaining(index, total_files) ==
    IF total_files > 0 THEN 100 - ((index * 100) \div total_files)
    ELSE index + 1

ProgressValue(index, total_files) ==
    IF total_files > 0 THEN ((index + 1) * 100) \div total_files
    ELSE index + 1

\* pd.DataFrame({'name': file_names, 'size': file_sizes}): one row per file
DataFrame(file_names, file_sizes) ==
    [k \in 1..Len(file_names) |->
        [name |-> file_names[k], size |-> file_sizes[k]]]

\* The signals a FileScannerThread emits.
ProgressSignal(s, value) ==
    [sig |-> "progress", scan |-> s, value |-> value, df |-> <<>>]
ResultSignal(s, df) ==
    [sig |-> "result", scan |-> s, value |-> 0, df |-> df]

\* FileScannerThread before __init__
NoScan ==
    [pc |-> "new", directory |-> "", total_files |-> 0, entries |-> <<>>,
     index |-> 0, file_names |-> <<>>, file_sizes |-> <<>>, exc |-> "",
     \* history of the scan, for the properties
     emitted |-> <<>>]

\* An exception leaves run(): nothing catches it, the thread ends.
ScanSkipEntry(r, e) == [r EXCEPT !.pc = "loop", !.exc = e, !.index = @ + 1]

ScanRaise(r, e) == [r EXCEPT !.pc = "raised", !.exc = e]

\* continue: the loop goes on with the next item of enumerate(...)
AfterContinueSame(index) == index

AfterContinue(index) == index + 1

\* FileScannerThread(self.current_directory) followed by start()
NewScanner(directory) ==
    /\ scans + 1 \in DOMAIN sc
    /\ scans' = scans + 1
    /\ file_scanner_thread' = scans + 1
    /\ sc' = [sc EXCEPT ![scans + 1] =
                 [NoScan EXCEPT !.pc = "count", !.directory = directory]]

\* run(): the first os.listdir, total_files and increment
ScanCount(s) ==
    /\ sc[s].pc = "count"
    /\ sc' = [sc EXCEPT ![s] =
                 IF dir_readable
                   THEN [@ EXCEPT !.pc = "list",
                                  !.total_files = Len(NotHidden(ListDir))]
                   ELSE ScanRaise(@, "PermissionError")]
    /\ UNCHANGED <<fsvars, appvars, th, order, recent_scans, settings_file,
                   file_scanner_thread, scans, queue, delivered,
                   progress_bar, displayed, selected_file, slot_error,
                   message_box, shown>>

\* the second os.listdir, the one the loop enumerates
ScanList(s) ==
    /\ sc[s].pc = "list"
    /\ sc' = [sc EXCEPT ![s] =
                 IF dir_readable
                   THEN [@ EXCEPT !.pc = "loop", !.entries = ListDir,
                                  !.index = 0]
                   ELSE ScanRaise(@, "PermissionError")]
    /\ UNCHANGED <<fsvars, appvars, th, order, recent_scans, settings_file,
                   file_scanner_thread, scans, queue, delivered,
                   progress_bar, displayed, selected_file, slot_error,
                   message_box, shown>>

\* One iteration of the loop up to os.path.isfile(path): a hidden name is
\* skipped, a regular file goes on to os.stat, any other entry only emits
\* progress.
ScanEntry(s) ==
    LET r == sc[s]
        filename == r.entries[r.index + 1]
        e == ProgressSignal(s, ProgressValue(r.index, r.total_files))
    IN
    /\ r.pc = "loop"
    /\ r.index < Len(r.entries)
    /\ IF StartsWithDot(filename)
         THEN /\ sc' = [sc EXCEPT ![s] =
                           [r EXCEPT !.index = AfterContinue(@)]]
              /\ UNCHANGED queue
         ELSE IF IsFile(filename)
         THEN /\ sc' = [sc EXCEPT ![s] = [r EXCEPT !.pc = "stat"]]
              /\ UNCHANGED queue
         ELSE /\ sc' = [sc EXCEPT ![s] =
                           [r EXCEPT !.index = @ + 1,
                                     !.emitted = Append(@, e)]]
              /\ queue' = Append(queue, e)
    /\ UNCHANGED <<fsvars, appvars, th, order, recent_scans, settings_file,
                   file_scanner_thread, scans, delivered,
                   progress_bar, displayed, selected_file, slot_error,
                   message_box, shown>>

\* os.stat(path).st_size, the two appends and self.progress.emit(...)
ScanStat(s) ==
    LET r == sc[s]
        filename == r.entries[r.index + 1]
        e == ProgressSignal(s, ProgressValue(r.index, r.total_files))
    IN
    /\ r.pc = "stat"
    /\ IF ~Exists(filename)
         THEN /\ sc' = [sc EXCEPT ![s] = ScanRaise(r, "FileNotFoundError")]
              /\ UNCHANGED queue
         ELSE /\ sc' = [sc EXCEPT ![s] =
                           [r EXCEPT !.pc = "loop", !.index = @ + 1,
                                !.file_sizes = Append(@, GetSize(filename)),
                                !.file_names = Append(@, filename),
                                !.emitted = Append(@, e)]]
              /\ queue' = Append(queue, e)
    /\ UNCHANGED <<fsvars, appvars, th, order, recent_scans, settings_file,
                   file_scanner_thread, scans, delivered,
                   progress_bar, displayed, selected_file, slot_error,
                   message_box, shown>>

\* after the loop: the DataFrame and self.result.emit(df)
ScanResult(s) ==
    LET r == sc[s]
        e == ResultSignal(s, DataFrame(r.file_names, r.file_sizes))
    IN
    /\ r.pc = "loop"
    /\ r.index >= Len(r.entries)
    /\ sc' = [sc EXCEPT ![s] =
                 [r EXCEPT !.pc = "done", !.emitted = Append(@, e)]]
    /\ queue' = Append(queue, e)
    /\ UNCHANGED <<fsvars, appvars, th, order, recent_scans, settings_file,
                   file_scanner_thread, scans, delivered,
                   progress_bar, displayed, selected_file, slot_error,
                   message_box, shown>>

\* ------------------------------------------------------ the scan window
\* progress_bar.setValue(value) of a bar of range 0..100: a value outside
\* the range is ignored.
SetValue(current, value) ==
    IF 0 <= value /\ value <= 100 THEN value ELSE current

\* Which posted signal the GUI thread handles next.  The connections of
\* scan_directory cross threads, so the signals are queued and handled in
\* the order of their emission.
LastPosted(q) == Len(q)

NextPosted(q) == 1

\* The GUI thread handles one posted signal: progress_bar.setValue for a
\* progress signal, display_data for a result.
Deliver ==
    /\ queue # <<>>
    /\ LET k == NextPosted(queue)
           e == queue[k]
       IN /\ queue' = [j \in 1..(Len(queue) - 1) |->
                           IF j < k THEN queue[j] ELSE queue[j + 1]]
          /\ delivered' = [delivered EXCEPT ![e.scan] = Append(@, e)]
          /\ IF e.sig = "progress"
               THEN /\ progress_bar' = SetValue(progress_bar, e.value)
                    /\ UNCHANGED <<displayed, shown>>
               ELSE /\ displayed' = e.df
                    /\ shown' = e.scan
                    /\ UNCHANGED progress_bar
    /\ UNCHANGED <<fsvars, appvars, th, order, recent_scans, settings_file,
                   file_scanner_thread, scans, sc, selected_file, slot_error,
                   message_box>>

\* recent_scans.insert(0, directory) and the pop() beyond 30 entries
InsertRecentNoPop(recent, directory) == <<directory>> \o recent

InsertRecent(recent, directory) ==
    LET ins == <<directory>> \o recent
    IN IF Len(ins) > MaxRecent THEN SubSeq(ins, 1, Len(ins) - 1) ELSE ins

\* load_data of the scan window, with the scan_directory() it ends with,
\* when the dialog returns directory.
LoadDirectory(directory) ==
    /\ current_directory' = directory
    /\ IF \E k \in DOMAIN recent_scans : recent_scans[k] = directory
         THEN UNCHANGED <<recent_scans, settings_file>>
         ELSE /\ recent_scans' = InsertRecent(recent_scans, directory)
              \* save_settings()
              /\ settings_file' = recent_scans'
    /\ progress_bar' = 0
    /\ NewScanner(current_directory')
    /\ UNCHANGED <<fsvars, secure_delete_thread, started, th, order,
                   queue, delivered, displayed, selected_file,
                   slot_error, message_box, shown>>

\* load_data, the dialog returning the directory of the model
load_data == \E directory \in {Directory} : LoadDirectory(directory)

\* sorted(files, key=...): a stable sort by ascending key
RECURSIVE SortedBy(_, _)
SortedBy(names, key) ==
    IF names = <<>> THEN <<>>
    ELSE LET front == SortedBy(SubSeq(names, 1, Len(names) - 1), key)
             x == names[Len(names)]
             n == Cardinality({k \in DOMAIN front : key[front[k]] <= key[x]})
         IN SubSeq(front, 1, n) \o <<x>> \o SubSeq(front, n + 1, Len(front))

\* The sort keys of apply_sort.  Names compare as strings; the extension of
\* a name is what os.path.splitext splits off ('' for '.hidden' and 'b',
\* '.txt' for the others); modification times follow the inode numbers.
SortKeys == {"name", "size", "type", "date"}

SortKey(sort_by) ==
    CASE sort_by = "name" ->
           [name \in Names |->
               CASE name = ".hidden" -> 1 [] name = "a.txt" -> 2
                 [] name = "b" -> 3 [] OTHER -> 4]
      [] sort_by = "size" ->
           [name \in Names |-> IF Exists(name) THEN GetSize(name) ELSE 0]
      [] sort_by = "type" ->
           [name \in Names |-> IF name \in {".hidden", "b"} THEN 1 ELSE 2]
      [] OTHER -> [name \in Names |-> dirent[name]]

\* pd.DataFrame(file_details, columns=['name', 'size']) of apply_sort
SortedDataset(sort_by) ==
    LET sorted_files == SortedBy(ListDir, SortKey(sort_by))
    IN [k \in 1..Len(sorted_files) |->
           [name |-> sorted_files[k], size |-> GetSize(sorted_files[k])]]

\* apply_sort(sort_by), with the display_data(df) it ends with
apply_sort ==
    \E sort_by \in SortKeys :
        /\ IF current_directory = ""
             THEN /\ message_box' = "Error"
                  /\ UNCHANGED <<displayed, shown, slot_error>>
             ELSE IF ~dir_readable
             THEN /\ slot_error' = "PermissionError"
                  /\ UNCHANGED <<displayed, shown, message_box>>
             ELSE /\ displayed' = SortedDataset(sort_by)
                  /\ shown' = 0
                  /\ UNCHANGED <<message_box, slot_error>>
        /\ UNCHANGED <<fsvars, appvars, th, order, recent_scans, settings_file,
                       file_scanner_thread, scans, sc, queue, delivered,
                       progress_bar, selected_file>>

\* on_click: the click falls in the rectangle of one displayed row (a row
\* of size 0 has a rectangle of no area, which contains no point).
on_click ==
    \E k \in DOMAIN displayed :
        /\ displayed[k].size > 0
        /\ selected_file' = displayed[k].name
        /\ message_box' = "File Selected"
        /\ UNCHANGED <<fsvars, appvars, th, order, recent_scans, settings_file,
                       file_scanner_thread, scans, sc, queue, delivered,
                       progress_bar, displayed, slot_error, shown>>

\* The signals a SecureDeleteThread object has: those of QThread; the
\* class declares none of its own.
SecureDeleteThreadSignals == {"started", "finished"}

\* the values the passes slider can hold (range 1..99, initially 3)
SliderValues == {SliderValue, PassesHigh}

\* secure_delete_file: the handler of the scan window's secure delete.  The
\* thread object is created; connecting its progress signal raises
\* AttributeError when the object has no such signal, and the handler is
\* left before finished is connected and before start().
secure_delete_file ==
    /\ selected_file # ""
    /\ \E passes \in SliderValues :
          IF ~validate_passes(passes)
            THEN /\ message_box' = "Invalid Input"
                 /\ UNCHANGED <<appvars, th, progress_bar, slot_error>>
            ELSE /\ progress_bar' = 0
                 /\ UNCHANGED message_box
                 /\ started < MaxThreads
                 /\ started' = started + 1
                 /\ secure_delete_thread' = started + 1
                 /\ UNCHANGED current_directory
                 /\ LET r == [NoThread EXCEPT !.file_path = selected_file,
                                              !.method = "dod",
                                              !.passes = passes]
                    IN IF "progress" \in SecureDeleteThreadSignals
                         THEN /\ th' = [th EXCEPT ![started + 1] =
                                           [r EXCEPT !.pc = "run"]]
                              /\ slot_error' = ""
                         ELSE /\ th' = [th EXCEPT ![started + 1] =
                                           [r EXCEPT !.pc = "unstarted"]]
                              /\ slot_error' = "AttributeError"
    /\ UNCHANGED <<fsvars, order, recent_scans, settings_file,
                   file_scanner_thread, scans,
                   sc, queue, delivered, displayed, selected_file, shown>>

\* ---------------------------------------------------------- the callers
\* The pass counts a request is made with.  Every small count, 0 included,
\* for the methods that loop over self.passes (their work grows with it);
\* for the other methods the counts the design names: 1, 10, the largest
\* valid count and the first invalid one.
LargePasses == {10, 99, 100}
PassCounts(method) ==
    IF method \in {"zero", "random"} THEN 0..MaxPasses ELSE {1} \cup LargePasses

\* The requests the erase interface is called with.
Requests ==
    {q \in [file_path : {"a.txt"}, method : KnownMethods,
            passes : (0..MaxPasses) \cup LargePasses] :
        q.passes \in PassCounts(q.method)}

\* start_secure_delete(file_path, method, passes)
start_secure_delete ==
    \E q \in Requests :
        /\ NewThread(q.file_path, q.method, q.passes)
        /\ UNCHANGED <<fsvars, current_directory, scanvars>>

\* load_data of the window that owns secure_delete: a directory is chosen
load_data_v1 ==
    /\ current_directory = ""
    /\ current_directory' = Directory
    /\ UNCHANGED <<fsvars, secure_delete_thread, started, th, scanvars>>

\* for root, dirs, files in os.walk(...): the first file of the first
\* directory that has one ("" when there is none; "b" holds no file)
WalkFiles == SelectSeq(order, LAMBDA name : IsFile(name))
FirstWalkFile == IF WalkFiles = <<>> THEN "" ELSE Head(WalkFiles)

\* secure_delete: the handler of the 'Secure Delete' button
secure_delete ==
    /\ current_directory # ""
    /\ FirstWalkFile # ""
    /\ \E text \in DeletionMethodItems, passes \in {SpinBoxValue} :
          NewThread(FirstWalkFile, MethodFromText(text), passes)
    /\ UNCHANGED <<fsvars, current_directory, scanvars>>

\* ------------------------------------------------------- specification
\* The scan window after __init__: nothing scanned, nothing selected.
FreshWindow(scanners) ==
    /\ recent_scans = <<>>
    /\ settings_file = <<>>
    /\ file_scanner_thread = 0
    /\ scans = 0
    /\ sc = [s \in scanners |-> NoScan]
    /\ queue = <<>>
    /\ delivered = [s \in scanners |-> <<>>]
    /\ progress_bar = 0
    /\ displayed = <<>>
    /\ selected_file = ""
    /\ slot_error = ""
    /\ message_box = ""
    /\ shown = 0

NoScanYet == FreshWindow(Scans)

Init ==
    /\ dirent = InitIno
    /\ isdir = [ino \in Inodes |-> ino = InitIno["b"]]
    /\ \E s \in 0..MaxSize :
          content = [ino \in Inodes |->
                        IF ino = InitIno["a.txt"] THEN Repeat("o", s)
                        ELSE IF ino = InitIno[".hidden"] THEN <<"o">>
                        ELSE <<>>]
    /\ dir_writable \in BOOLEAN
    /\ dir_readable = TRUE
    /\ current_directory = ""
    /\ secure_delete_thread = 0
    /\ started = 0
    /\ th = [t \in Threads |-> NoThread]
    /\ order = ListOrder
    /\ NoScanYet

\* No worker is running: every request made so far has ended.
Idle == \A t \in Threads : th[t].pc \in {"new", "done", "raised"}

\* The caller the design asks for issues an erase request only when the
\* previous one has ended (requests are serialized): a call of
\* start_secure_delete, and a click on 'Secure Delete'.
RequestErase == Idle /\ start_secure_delete
ClickSecureDelete == Idle /\ secure_delete

Next ==
    \/ RequestErase
    \/ load_data_v1
    \/ ClickSecureDelete
    \/ \E t \in Threads : Run(t)
    \/ \E t \in Threads : PassBuffer(t)
    \/ \E t \in Threads : AesRead(t)
    \/ \E t \in Threads : PassWrite(t)
    \/ \E t \in Threads : Remove(t)

Spec == Init /\ [][Next]_vars

\* Any caller: a request may be issued while earlier ones are running.
ConcurrentNext ==
    \/ start_secure_delete
    \/ load_data_v1
    \/ secure_delete
    \/ \E t \in Threads : Run(t)
    \/ \E t \in Threads : PassBuffer(t)
    \/ \E t \in Threads : AesRead(t)
    \/ \E t \in Threads : PassWrite(t)
    \/ \E t \in Threads : Remove(t)

ConcurrentSpec == Init /\ [][ConcurrentNext]_vars

\* The scan window.  The directory holds any subset of Names, enumerated in
\* any order; a.txt is empty or of the largest size.
Orders == {p \in [1..Cardinality(Names) -> Names] :
              \A j, k \in 1..Cardinality(Names) : p[j] = p[k] => j = k}

ScanInit ==
    /\ \E present \in SUBSET Names :
          dirent = [name \in Names |->
                       IF name \in present THEN InitIno[name] ELSE 0]
    /\ isdir = [ino \in Inodes |-> ino = InitIno["b"]]
    /\ \E s \in {0, MaxSize} :
          content = [ino \in Inodes |->
                        IF ino = InitIno["a.txt"] THEN Repeat("o", s)
                        ELSE IF ino = InitIno["c.txt"] THEN <<"o", "o">>
                        ELSE IF ino = InitIno[".hidden"] THEN <<"o">>
                        ELSE <<>>]
    /\ dir_writable = TRUE
    /\ dir_readable = TRUE
    /\ current_directory = ""
    /\ secure_delete_thread = 0
    /\ started = 0
    /\ th = [t \in Threads |-> NoThread]
    /\ order \in Orders
    /\ NoScanYet

\* No scan is running and every signal has been handled.
ScanIdle ==
    /\ \A s \in DOMAIN sc : sc[s].pc \in {"new", "done", "raised"}
    /\ queue = <<>>

\* The user asks for a scan when the previous one is over.
RequestScan == ScanIdle /\ load_data

ScanNext ==
    \/ RequestScan
    \/ \E s \in Scans : ScanCount(s)
    \/ \E s \in Scans : ScanList(s)
    \/ \E s \in Scans : ScanEntry(s)
    \/ \E s \in Scans : ScanStat(s)
    \/ \E s \in Scans : ScanResult(s)
    \/ Deliver
    \/ on_click
    \/ secure_delete_file

ScanSpec == ScanInit /\ [][ScanNext]_vars

\* Erases of a.txt while its directory is scanned.  The directory holds all
\* four names and may be unreadable; one erase request is made, at any
\* moment, scan requests are serialized, and the two kinds of work overlap
\* freely.
EraseScanOrder == <<".hidden", "c.txt", "b", "a.txt">>

EraseScanInit ==
    /\ dirent = InitIno
    /\ isdir = [ino \in Inodes |-> ino = InitIno["b"]]
    /\ content = [ino \in Inodes |->
                     IF ino = InitIno["a.txt"] THEN Repeat("o", MaxSize)
                     ELSE IF ino = InitIno["c.txt"] THEN <<"o", "o">>
                     ELSE IF ino = InitIno[".hidden"] THEN <<"o">>
                     ELSE <<>>]
    /\ dir_writable = TRUE
    /\ dir_readable \in BOOLEAN
    /\ current_directory = ""
    /\ secure_delete_thread = 0
    /\ started = 0
    /\ th = [t \in Threads |-> NoThread]
    /\ order = EraseScanOrder
    /\ NoScanYet

\* the erase request made while scanning: every method, a valid pass count
ScanTimeRequests == {q \in Requests : validate_passes(q.passes)}

RequestEraseWhileScanning ==
    /\ started = 0
    /\ \E q \in ScanTimeRequests :
          /\ NewThread(q.file_path, q.method, q.passes)
          /\ UNCHANGED <<fsvars, current_directory, scanvars>>

EraseScanNext ==
    \/ RequestEraseWhileScanning
    \/ RequestScan
    \/ \E t \in Threads : Run(t)
    \/ \E t \in Threads : PassBuffer(t)
    \/ \E t \in Threads : AesRead(t)
    \/ \E t \in Threads : PassWrite(t)
    \/ \E t \in Threads : Remove(t)
    \/ \E s \in Scans : ScanCount(s)
    \/ \E s \in Scans : ScanList(s)
    \/ \E s \in Scans : ScanEntry(s)
    \/ \E s \in Scans : ScanStat(s)
    \/ \E s \in Scans : ScanResult(s)
    \/ Deliver

EraseScanSpec == EraseScanInit /\ [][EraseScanNext]_vars

\* Scan requests that overlap: the user picks a directory, D1 or D2, while
\* earlier scans may still be running.  Every directory holds the same four
\* names.
DirNames ==
    <<"D1", "D2", "D3", "D4", "D5", "D6", "D7", "D8", "D9", "D10",
      "D11", "D12", "D13", "D14", "D15", "D16", "D17", "D18", "D19",
      "D20", "D21", "D22", "D23", "D24", "D25", "D26", "D27", "D28",
      "D29", "D30", "D31">>

OverlapInit ==
    /\ EraseScanInit
    /\ dir_readable = TRUE

RequestOverlappingScan ==
    \E directory \in {DirNames[1], DirNames[2]} : LoadDirectory(directory)

OverlapNext ==
    \/ RequestOverlappingScan
    \/ \E s \in Scans : ScanCount(s)
    \/ \E s \in Scans : ScanList(s)
    \/ \E s \in Scans : ScanEntry(s)
    \/ \E s \in Scans : ScanStat(s)
    \/ \E s \in Scans : ScanResult(s)
    \/ Deliver

OverlapSpec == OverlapInit /\ [][OverlapNext]_vars

\* Sort requests between scans of a directory that does not change.
SortNext ==
    \/ RequestScan
    \/ \E s \in Scans : ScanCount(s)
    \/ \E s \in Scans : ScanList(s)
    \/ \E s \in Scans : ScanEntry(s)
    \/ \E s \in Scans : ScanStat(s)
    \/ \E s \in Scans : ScanResult(s)
    \/ Deliver
    \/ apply_sort

SortSpec == ScanInit /\ [][SortNext]_vars

\* The recent scans: the application is run again and again, each run
\* scanning up to MaxLoads directories.  The directories are interchangeable,
\* so the dialog returns the first one the list does not hold, the newest
\* entry of the list or its oldest one.
MaxLoads == 3

FirstUnlisted(recent) ==
    LET free == {k \in DOMAIN DirNames :
                    \A j \in DOMAIN recent : recent[j] # DirNames[k]}
    IN DirNames[CHOOSE k \in free : \A j \in free : k <= j]

DialogChoices ==
    {FirstUnlisted(recent_scans)}
        \cup {recent_scans[k] :
                 k \in {1, Len(recent_scans)} \cap DOMAIN recent_scans}

RecentInit ==
    /\ dirent = InitIno
    /\ isdir = [ino \in Inodes |-> ino = InitIno["b"]]
    /\ content = [ino \in Inodes |->
                     IF ino = InitIno["b"] THEN <<>> ELSE <<"o">>]
    /\ dir_writable = TRUE
    /\ dir_readable = TRUE
    /\ current_directory = ""
    /\ secure_delete_thread = 0
    /\ started = 0
    /\ th = [t \in Threads |-> NoThread]
    /\ order = ListOrder
    /\ FreshWindow(1..MaxLoads)

RequestRecentScan ==
    /\ ScanIdle
    /\ \E directory \in DialogChoices : LoadDirectory(directory)

\* The application is closed and started again: __init__, whose
\* load_settings() reads settings.json.
Restart ==
    /\ ScanIdle
    /\ scans > 0
    /\ recent_scans' = settings_file
    /\ current_directory' = ""
    /\ file_scanner_thread' = 0
    /\ scans' = 0
    /\ sc' = [s \in DOMAIN sc |-> NoScan]
    /\ delivered' = [s \in DOMAIN delivered |-> <<>>]
    /\ progress_bar' = 0
    /\ displayed' = <<>>
    /\ selected_file' = ""
    /\ slot_error' = ""
    /\ message_box' = ""
    /\ shown' = 0
    /\ UNCHANGED <<fsvars, secure_delete_thread, started, th, order,
                   settings_file, queue>>

RecentNext ==
    \/ RequestRecentScan
    \/ \E s \in DOMAIN sc : ScanCount(s)
    \/ \E s \in DOMAIN sc : ScanList(s)
    \/ \E s \in DOMAIN sc : ScanEntry(s)
    \/ \E s \in DOMAIN sc : ScanStat(s)
    \/ \E s \in DOMAIN sc : ScanResult(s)
    \/ Deliver
    \/ Restart

RecentSpec == RecentInit /\ [][RecentNext]_vars

\* The steps of one worker thread, and of one scanner thread.
WorkerStep(t) ==
    Run(t) \/ PassBuffer(t) \/ AesRead(t) \/ PassWrite(t) \/ Remove(t)

ScannerStep(s) ==
    ScanCount(s) \/ ScanList(s) \/ ScanEntry(s) \/ ScanStat(s) \/ ScanResult(s)

\* The operating system schedules every started thread again and again.
FairEraseScanSpec ==
    /\ EraseScanSpec
    /\ \A t \in Threads : WF_vars(WorkerStep(t))
    /\ \A s \in Scans : WF_vars(ScannerStep(s))

\* ================================================================ claims
Range(seq) == {seq[k] : k \in DOMAIN seq}

\* No request was made after request t.
NoLaterRequest(t) == \A u \in Threads : u > t => th[u].pc = "new"

\* The bytes now stored under the path of request t (<<>> when absent).
Stored(t) ==
    IF Exists(th[t].file_path) THEN content[dirent[th[t].file_path]] ELSE <<>>

\* The path of request t names a regular file holding what it held when
\* the request was invoked.
PresentUnchanged(t) ==
    IsFile(th[t].file_path) /\ Stored(t) = th[t].data0

\* C1: for ZeroFill, RandomFill and DoD3Pass every pass writes its buffer at
\* file offset 0, so when an erase ends in Success no byte of the original
\* content was stored in the file at the moment its entry was removed.
C1_NoOriginalByteAtUnlink ==
    \A t \in Threads :
        /\ th[t].method \in {"zero", "random", "dod"}
        /\ validate_passes(th[t].passes)
        /\ th[t].pc = "done"
        =>
            /\ \A k \in DOMAIN th[t].wlog : th[t].wlog[k].off = 0
            /\ "o" \notin Range(th[t].unlinked)

\* C2: for every method and every pass count in [1,99], the length of the
\* target file between invocation and unlink equals its length at
\* invocation.
C2_LengthPreserved ==
    \A t \in Threads :
        /\ th[t].method \in KnownMethods
        /\ validate_passes(th[t].passes)
        /\ th[t].kind0 = "file"
        =>
        /\ th[t].pc \in {"getsize", "write", "read", "remove"} =>
               Len(Stored(t)) = Len(th[t].data0)
        /\ th[t].pc = "done" => Len(th[t].unlinked) = Len(th[t].data0)

\* C3: for ZeroFill on a file of size S every pass buffer is all zero bytes
\* and has length exactly S, and after completion the file no longer exists.
C3_ZeroFillBuffers ==
    \A t \in Threads :
        th[t].method = "zero" =>
            /\ \A k \in DOMAIN th[t].wlog :
                   th[t].wlog[k].buf = ZeroBytes(Len(th[t].data0))
            /\ th[t].pc = "done" /\ NoLaterRequest(t) =>
                   ~Exists(th[t].file_path)

\* C4: a request with passes outside [1,99] fails with InvalidArgument
\* before any I/O: nothing is written, and the file is still present with
\* its content unchanged.
C4_InvalidPassesRejected ==
    \A t \in Threads :
        /\ Terminated(t)
        /\ ~validate_passes(th[t].passes)
        /\ th[t].kind0 = "file"
        /\ dir_writable
        =>
        /\ Outcome(t) = "InvalidArgument"
        /\ th[t].wlog = <<>>
        /\ NoLaterRequest(t) => PresentUnchanged(t)

\* C5: a request whose method is none of the four known ones, the method
\* strings the UI derives from its selector included, fails with
\* InvalidArgument and leaves the file present and unchanged.
C5_UnknownMethodRejected ==
    \A t \in Threads :
        Terminated(t) /\ th[t].method \notin KnownMethods /\ th[t].kind0 = "file"
        =>
        /\ Outcome(t) = "InvalidArgument"
        /\ NoLaterRequest(t) => PresentUnchanged(t)

\* C6: a request for a path that does not exist when the erase executes
\* fails with NotFound, and no file is created at that path.
C6_MissingPathNotFound ==
    \A t \in Threads :
        /\ Terminated(t)
        /\ th[t].method \in KnownMethods
        /\ validate_passes(th[t].passes)
        /\ th[t].kind0 = "absent"
        =>
            /\ Outcome(t) = "NotFound"
            /\ ~th[t].created

\* C7: when the removal of the entry fails after all overwrite passes
\* succeeded, the outcome is PartialErase.
C7_UnlinkFailureIsPartialErase ==
    \A t \in Threads :
        /\ th[t].pc = "raised"
        /\ th[t].overwritten
        /\ validate_passes(th[t].passes)
        /\ Len(th[t].data0) > 0
        =>
            Outcome(t) = "PartialErase"

\* C8: DoD3Pass performs exactly 3 overwrite passes and AesOverwrite exactly
\* one read and one write, whatever the requested pass count.
C8_FixedPassCounts ==
    \A t \in Threads :
        /\ th[t].method = "dod" =>
              /\ Len(th[t].wlog) <= 3
              /\ th[t].overwritten => Len(th[t].wlog) = 3
        /\ th[t].method = "aes" =>
              /\ Len(th[t].wlog) <= 1 /\ th[t].reads <= 1
              /\ th[t].overwritten => Len(th[t].wlog) = 1 /\ th[t].reads = 1

C8_Witness ==
    \E t, u \in Threads :
        /\ th[t].method = "dod" /\ th[t].passes = 10 /\ th[t].pc = "done"
        /\ Len(th[t].data0) > 0 /\ Len(th[t].wlog) = 3
        /\ th[u].method = "aes" /\ th[u].passes = 99 /\ th[u].pc = "done"
        /\ Len(th[u].wlog) = 1

\* C9: for ZeroFill and RandomFill with passes = p in [1,99], exactly p
\* pass-writes are performed, all of them while the entry is still there
\* and before its removal is attempted, and after completion the file no
\* longer exists at that path.
C9_PassesThenUnlink ==
    \A t \in Threads :
        th[t].method \in {"zero", "random"} /\ validate_passes(th[t].passes) =>
            /\ th[t].pc \in {"getsize", "write"} =>
                   Exists(th[t].file_path) /\ Len(th[t].wlog) < th[t].passes
            /\ th[t].pc \in {"remove", "done"} =>
                   Len(th[t].wlog) = th[t].passes
            /\ th[t].pc = "done" /\ NoLaterRequest(t) =>
                   ~Exists(th[t].file_path)

C9_Witness ==
    \E t \in Threads :
        /\ th[t].method = "zero" /\ th[t].passes = 3 /\ th[t].pc = "done"
        /\ Len(th[t].data0) > 0 /\ Len(th[t].wlog) = 3
        /\ ~Exists(th[t].file_path)

\* C10: AesOverwrite writes the ciphertext at offset 0 with the length of
\* the plaintext, so after the transformation and before unlink the file
\* has exactly its original length and holds only ciphertext.
C10_AesInPlace ==
    \A t \in Threads :
        th[t].method = "aes" /\ th[t].kind0 = "file" =>
            /\ \A k \in DOMAIN th[t].wlog :
                   /\ th[t].wlog[k].off = 0
                   /\ Len(th[t].wlog[k].buf) = Len(th[t].data0)
            /\ th[t].pc = "remove" => Stored(t) = Encrypt(th[t].data0)
            /\ th[t].pc = "done" => th[t].unlinked = Encrypt(th[t].data0)

\* ------------------------------------------- claims on concurrent erases
\* The worker is between start() and the end of run().
InFlight(t) == th[t].pc \in {"run", "getsize", "write", "read", "remove"}

\* C11: at any moment at most one erase is in flight on a given path, also
\* when the erase of a path is requested again before the earlier request
\* has ended.
C11_OneEraseInFlightPerPath ==
    \A t, u \in Threads :
        t # u /\ InFlight(t) /\ InFlight(u) =>
            th[t].file_path # th[u].file_path

\* ------------------------------------------------------ claims on scans
\* The values of the progress signals of a list of signals, in order.
ProgressValues(signals) ==
    LET ps == SelectSeq(signals, LAMBDA e : e.sig = "progress")
    IN [k \in 1..Len(ps) |-> ps[k].value]

Results(signals) == SelectSeq(signals, LAMBDA e : e.sig = "result")

\* The names of Names whose first character is a dot.
DotNames == {".hidden"}

\* The top-level regular files of the directory that are not hidden, in
\* enumeration order, and the rows a scan should report for them.
VisibleFiles ==
    SelectSeq(order, LAMBDA name : name \notin DotNames /\ IsFile(name))

ExpectedRows ==
    [k \in 1..Len(VisibleFiles) |->
        [name |-> VisibleFiles[k], size |-> GetSize(VisibleFiles[k])]]

\* C12: a scan of a directory with N visible regular files emits exactly N
\* progress updates, whatever hidden entries or sub-directories it holds.
C12_OneProgressPerVisibleFile ==
    \A s \in Scans :
        sc[s].pc = "done" =>
            Len(ProgressValues(sc[s].emitted)) = Len(VisibleFiles)

\* C13: every progress value a scan emits is an integer from 0 to 100, for
\* every directory content and enumeration order.
C13_ProgressInRange ==
    \A s \in Scans :
        \A v \in Range(ProgressValues(sc[s].emitted)) : 0 <= v /\ v <= 100

\* C14: for a directory with at least one visible file, the last progress
\* value emitted before the result is exactly 100, wherever the hidden
\* entries fall in the enumeration.
C14_LastProgressIsHundred ==
    \A s \in Scans :
        sc[s].pc = "done" /\ VisibleFiles # <<>> =>
            LET pv == ProgressValues(sc[s].emitted)
            IN pv # <<>> /\ pv[Len(pv)] = 100

C16_EmptyScanSingleHundred ==
    \A s \in Scans :
        /\ sc[s].exc # "ZeroDivisionError"
        /\ sc[s].pc = "done" /\ VisibleFiles = <<>> =>
              /\ ProgressValues(sc[s].emitted) = <<100>>
              /\ Results(sc[s].emitted) = <<ResultSignal(s, <<>>)>>

\* C17: the progress values of one scan never decrease.
C17_ProgressMonotone ==
    \A s \in Scans :
        LET pv == ProgressValues(sc[s].emitted)
        IN \A j, k \in DOMAIN pv : j <= k => pv[j] <= pv[k]

C17_Witness ==
    \E s \in Scans :
        LET pv == ProgressValues(sc[s].emitted)
        IN sc[s].pc = "done" /\ Len(pv) >= 3 /\ pv[1] < pv[3]

\* C18: the result of a scan is emitted after every progress signal of that
\* scan, and the window handles the signals of a scan in the order of their
\* emission: no progress update of a scan is handled after its result.
C18_ResultAfterProgress ==
    \A s \in Scans :
        /\ \A k \in DOMAIN sc[s].emitted :
              sc[s].emitted[k].sig = "result" => k = Len(sc[s].emitted)
        /\ Len(delivered[s]) <= Len(sc[s].emitted)
        /\ delivered[s] = SubSeq(sc[s].emitted, 1, Len(delivered[s]))

C18_Witness ==
    \E s \in Scans :
        /\ Results(delivered[s]) # <<>>
        /\ Len(ProgressValues(delivered[s])) >= 2

\* ------------------------------------- claims on the scan window's erase
\* C19: a request to erase the selected file, an existing regular file, with
\* a valid pass count leaves a worker that has been started.
C19_WorkerStarted ==
    \A t \in Threads :
        /\ th[t].pc # "new"
        /\ IsFile(th[t].file_path)
        /\ validate_passes(th[t].passes)
        => th[t].pc # "unstarted"

\* C20: the caller is told Success only when the file was overwritten and
\* its entry removed, and whenever the overwrite or the unlink of a request
\* failed the caller is told of a failure.
FailureTitles == {"Error", "Failure"}

C20_FailureOutcomeDelivered ==
    /\ message_box = "Success" =>
          \E t \in Threads : th[t].pc = "done" /\ th[t].overwritten
    /\ (\E t \in Threads : /\ th[t].pc = "raised"
                             /\ th[t].method \in KnownMethods
                             /\ validate_passes(th[t].passes)
                             /\ th[t].kind0 = "file") =>
          message_box \in FailureTitles

\* ------------------------------------------ claims on the erase life cycle
\* The state of a request in the vocabulary of the design.
Phase(t) ==
    CASE th[t].pc \in {"new", "unstarted", "run"} -> "Pending"
      [] th[t].pc \in {"getsize", "write", "read"} -> "Overwriting"
      [] th[t].pc = "remove" -> "Unlinking"
      [] th[t].pc = "done" -> "Completed"
      [] OTHER -> "Failed"

\* C21: a request reaches Unlinking, and Completed, only through
\* Overwriting: the unlink is attempted only after the overwrite phase has
\* written the passes of the selected method, never straight from Pending.
C21_UnlinkOnlyAfterOverwrite ==
    \A t \in Threads :
        validate_passes(th[t].passes) /\ Phase(t) \in {"Unlinking", "Completed"} =>
            th[t].overwritten /\ th[t].wlog # <<>>

\* C24: in random_fill and dod_standard the k-th pass writes the buffer of
\* the k-th random draw of the request, made in that pass: no buffer is
\* written twice, and when the overwrite is over the number of draws is the
\* number of passes written.
C24_FreshDrawPerPass ==
    \A t \in Threads :
        th[t].method \in {"random", "dod"} =>
            /\ \A k \in DOMAIN th[t].wlog : th[t].wlog[k].draw = k
            /\ th[t].urandom >= Len(th[t].wlog)
            /\ th[t].urandom <= Len(th[t].wlog) + 1
            /\ th[t].overwritten =>
                  /\ th[t].urandom = Len(th[t].wlog)
                  /\ Len(th[t].wlog) = LoopCount(th[t].method, th[t].passes)

C24_Witness ==
    \E t, u \in Threads :
        /\ th[t].method = "random" /\ th[t].pc = "done"
        /\ Len(th[t].wlog) >= 2 /\ Len(th[t].data0) > 0
        /\ th[u].method = "dod" /\ th[u].pc = "done" /\ th[u].urandom = 3

\* C28: a step changes the entry, the content and the length of no name
\* other than the paths erase requests were made for: whatever an erase
\* does, and however it ends, every other entry stays as it was.
C28_OnlyRequestedPathTouched ==
    [][\A name \in Names :
          (\A t \in Threads : th'[t].file_path # name) =>
              /\ dirent'[name] = dirent[name]
              /\ dirent[name] # 0 =>
                    content'[dirent[name]] = content[dirent[name]]]_vars

C28_Witness ==
    /\ \E t \in Threads :
          /\ th[t].file_path = "a.txt" /\ th[t].pc = "done"
          /\ th[t].wlog # <<>> /\ Len(th[t].data0) > 0
    /\ ~Exists("a.txt")
    /\ \A name \in Names \ {"a.txt"} : Exists(name)

\* ------------------------------------- claims on scans that fail or race
\* C22: a scan in which os.listdir or os.stat raised has ended without any
\* result: none was emitted, none was handled by the window.
C22_FailedScanNoResult ==
    \A s \in Scans :
        sc[s].exc # "" =>
            /\ sc[s].pc = "raised"
            /\ Results(sc[s].emitted) = <<>>
            /\ Results(delivered[s]) = <<>>

C22_Witness ==
    \E s \in Scans :
        /\ sc[s].pc = "raised" /\ sc[s].exc = "FileNotFoundError"
        /\ sc[s].file_names # <<>>
        /\ ProgressValues(sc[s].emitted) # <<>>

\* C23: under fair scheduling of the threads every started erase and every
\* started scan ends, completed or failed.
C23_Termination ==
    /\ \A t \in Threads : th[t].pc = "run" ~> Terminated(t)
    /\ \A s \in Scans : sc[s].pc = "count" ~> sc[s].pc \in {"done", "raised"}

C23_Witness ==
    \E t \in Threads, s \in Scans :
        /\ th[t].pc = "done" /\ Len(th[t].wlog) = 2
        /\ sc[s].pc = "done" /\ Len(sc[s].emitted) >= 3

\* C25: a scan of a readable directory that overlaps an erase of one of its
\* files still ends by emitting exactly one result.
C25_ScanSurvivesErase ==
    \A s \in Scans :
        dir_readable =>
            /\ sc[s].pc # "raised"
            /\ sc[s].pc = "done" => Len(Results(sc[s].emitted)) = 1

\* C26: when a scan of one directory was requested while the scan of another
\* was still running, then once both are over and their signals handled the
\* window displays the result of the later request.
C26_LatestRequestDisplayed ==
    \A a, b \in Scans :
        /\ a < b /\ b = file_scanner_thread
        /\ sc[a].directory # sc[b].directory
        /\ sc[a].pc = "done" /\ sc[b].pc = "done"
        /\ queue = <<>>
        => shown = b

\* C27: the dataset a sort request puts on display holds exactly the rows a
\* scan of the same directory reports, in some order: the visible regular
\* files with their sizes, no hidden entry and no sub-directory.
C27_SortSameRowsAsScan ==
    shown = 0 /\ displayed # <<>> =>
        /\ Range(displayed) = Range(ExpectedRows)
        /\ Len(displayed) = Len(ExpectedRows)

\* ------------------------------------------------ claims on recent_scans
\* C29: from the default settings on, whatever directories load_data is
\* given, recent_scans (and the list saved in settings.json) has at most 30
\* entries and holds no directory twice.
C29_RecentBoundedDistinct ==
    \A l \in {recent_scans, settings_file} :
        /\ Len(l) <= MaxRecent
        /\ \A j, k \in DOMAIN l : l[j] = l[k] => j = k

C29_Witness ==
    /\ Len(recent_scans) = MaxRecent
    /\ recent_scans[1] = DirNames[MaxRecent + 1]
    /\ current_directory = recent_scans[1]

\* C30: after a load_data call that selected a directory, that directory is
\* the first entry of recent_scans, also when it had been scanned before.
C30_SelectedDirectoryFirst ==
    current_directory # "" =>
        recent_scans # <<>> /\ recent_scans[1] = current_directory

====
